---------------------------- MODULE Spec2Model ----------------------------
(***************************************************************************)
(* A model of pdf-access: process() of src/pdf_access/process.py and the   *)
(* helpers it calls (do_authentication, select_plans_for_source,           *)
(* select_plan_for_doc, apply_actions, save_pdf, apply_post_processing,    *)
(* size_report), the action implementations under actions/ and the        *)
(* gs-compress post-processor.                                             *)
(*                                                                         *)
(* A regular expression is modelled by the set of strings of the bounded   *)
(* universe that re.search accepts for it.  The content of an input PDF    *)
(* (a Doc record) is an input of the run, drawn when fitz.open reads it.   *)
(***************************************************************************)
EXTENDS Integers, Sequences, FiniteSets, TLC

(* ------------------------------ bounds -------------------------------- *)
\* classes in a package drawn for discover_and_register
MaxImpls == 2
\* plans in the configuration drawn for the pure-function specifications
MaxPlans == 2
\* passwords per plan drawn for do_authentication
MaxPasswords == 2
\* metadata_search entries per plan drawn for select_plan_for_doc
MaxSearch == 2
\* PDF files listed under the first source
MaxFiles == 2
\* calls of process(), one after the other, on the same configuration
MaxRuns == 2

(* ----------------------------- universes ------------------------------ *)
Names == {"a.pdf", "b.pdf"}
Fields == {"title", "author"}
Values == {"Draft", "Final"}
Passwords == {"pw1", "pw2"}
PlanNameSeq == <<"P1", "P2", "P3", "P4", "P5">>

\* a path at which no file exists
AbsentFile == [content |-> "absent", mtime |-> 0]
\* an output path the run has not looked at yet
Unread == [content |-> "unread", mtime |-> 0]

\* doc.metadata: some of the fields, each with a value
Metas == UNION {[F -> Values] : F \in SUBSET Fields}
NoMeta == [k \in {} |-> "Draft"]

\* no document is open
NoDoc == [name |-> "", is_encrypted |-> FALSE, accepts |-> {}, metadata |-> NoMeta,
          text |-> "", trailer_id |-> FALSE]

\* sequences over S of length 0..n
SeqsUpTo(S, n) == UNION {[1..k -> S] : k \in 0..n}

\* sequences without repetition (the keys of a dict are distinct)
Distinct(s) == \A i, j \in 1..Len(s) : i # j => s[i] # s[j]

\* re.search(regex, s) / regex.search(s)
ReSearch(regex, s) == s \in regex

\* fitz.Document.authenticate(password): accepted iff it is a password of the document
DocAuthenticate(d, password) == password \in d.accepts

(* --------------------------- do_authentication ------------------------ *)
\* A run of the scan that does not stop at the first accepted password.
RECURSIVE TryPasswordsNoStop(_, _, _, _)
TryPasswordsNoStop(d, p, i, sofar) ==
    IF i > Len(p.passwords) THEN [ok |-> FALSE, tried |-> sofar]
    ELSE LET t == Append(sofar, [plan |-> p.name, password |-> p.passwords[i]])
             r == TryPasswordsNoStop(d, p, i + 1, t)
         IN  [ok |-> r.ok \/ DocAuthenticate(d, p.passwords[i]), tried |-> r.tried]

\* The inner loop (for password in plan.passwords), from index i; sofar is the
\* list of calls of doc.authenticate made so far.
RECURSIVE TryPasswords(_, _, _, _)
TryPasswords(d, p, i, sofar) ==
    IF i > Len(p.passwords) THEN [ok |-> FALSE, tried |-> sofar]
    ELSE LET t == Append(sofar, [plan |-> p.name, password |-> p.passwords[i]])
         IN  IF DocAuthenticate(d, p.passwords[i])
             THEN [ok |-> TRUE, tried |-> t]
             ELSE TryPasswords(d, p, i + 1, t)

\* A scan that gives up after the first plan.
ScanPlansFirstOnly(d, ps, k, sofar) ==
    IF k > Len(ps) THEN [ok |-> FALSE, tried |-> sofar]
    ELSE TryPasswords(d, ps[k], 1, sofar)

\* The outer loop (for plan_name, plan in plans.items()), from plan k.
RECURSIVE ScanPlans(_, _, _, _)
ScanPlans(d, ps, k, sofar) ==
    IF k > Len(ps) THEN [ok |-> FALSE, tried |-> sofar]
    ELSE LET r == TryPasswords(d, ps[k], 1, sofar)
         IN  IF r.ok THEN r ELSE ScanPlans(d, ps, k + 1, r.tried)

\* do_authentication without the is_encrypted test.
AuthNoEncryptedTest(d, ps) == ScanPlans(d, ps, 1, <<>>)

\* do_authentication(doc, plans): the result and the calls of doc.authenticate
do_authentication(d, ps) ==
    IF ~d.is_encrypted
    THEN [ok |-> TRUE, tried |-> <<>>]
    ELSE ScanPlans(d, ps, 1, <<>>)

(* -------------------------- select_plan_for_doc ----------------------- *)
\* A metadata loop that forgets an earlier failure.
RECURSIVE SearchFieldsLastWins(_, _, _, _, _)
SearchFieldsLastWins(d, ms, j, matches_failed, sofar) ==
    IF j > Len(ms) THEN [failed |-> matches_failed, searched |-> sofar]
    ELSE LET field == ms[j].field
             bad == \/ field \notin DOMAIN d.metadata
                    \/ ~ReSearch(ms[j].regex, d.metadata[field])
         IN  SearchFieldsLastWins(d, ms, j + 1, bad, Append(sofar, field))

\* The loop over plan.metadata_search.items(), from entry j, with the flag
\* matches_failed; sofar lists the fields looked up in doc.metadata.
RECURSIVE SearchFields(_, _, _, _, _)
SearchFields(d, ms, j, matches_failed, sofar) ==
    IF j > Len(ms) THEN [failed |-> matches_failed, searched |-> sofar]
    ELSE IF matches_failed THEN [failed |-> TRUE, searched |-> sofar]
    ELSE LET field == ms[j].field
             bad == \/ field \notin DOMAIN d.metadata
                    \/ ~ReSearch(ms[j].regex, d.metadata[field])
         IN  SearchFields(d, ms, j + 1, bad, Append(sofar, field))

\* A plan loop that ignores path_regex.
RECURSIVE EvalPlansNoPath(_, _, _, _)
EvalPlansNoPath(d, ps, k, sofar) ==
    IF k > Len(ps) THEN [plan |-> 0, evaluated |-> sofar]
    ELSE LET s == SearchFields(d, ps[k].metadata_search, 1, FALSE, <<>>)
             e == Append(sofar, [plan |-> ps[k].name, path |-> TRUE, searched |-> s.searched])
         IN  IF ~s.failed
             THEN [plan |-> k, evaluated |-> e]
             ELSE EvalPlansNoPath(d, ps, k + 1, e)

\* The loop over plans.items(), from plan k; sofar lists the plans evaluated,
\* each with the result of its path test and the fields it searched.
RECURSIVE EvalPlans(_, _, _, _)
EvalPlans(d, ps, k, sofar) ==
    IF k > Len(ps) THEN [plan |-> 0, evaluated |-> sofar]
    ELSE IF ~ReSearch(ps[k].path_regex, d.name)
         THEN EvalPlans(d, ps, k + 1,
                  Append(sofar, [plan |-> ps[k].name, path |-> FALSE, searched |-> <<>>]))
         ELSE LET s == SearchFields(d, ps[k].metadata_search, 1, FALSE, <<>>)
                  e == Append(sofar, [plan |-> ps[k].name, path |-> TRUE, searched |-> s.searched])
              IN  IF ~s.failed
                  THEN [plan |-> k, evaluated |-> e]
                  ELSE EvalPlans(d, ps, k + 1, e)

\* select_plan_for_doc(doc, plans): the index of the plan returned (0 for None)
\* and the plans evaluated
select_plan_for_doc(d, ps) == EvalPlans(d, ps, 1, <<>>)


(* ------------------------ action implementations ---------------------- *)
Texts == {"body", "watermark"}

\* action_registry and post_process_registry handed to process(): key -> class
ActionRegistry ==
    [k \in {"detect-text", "delete-trailer-id", "gated-regex"} |->
        IF k = "detect-text" THEN "DetectTextAction"
        ELSE IF k = "delete-trailer-id" THEN "DeleteTrailerIDAction"
        ELSE "GatedRegexAction"]
PostProcessRegistry == [k \in {"gs-compress"} |-> "GSCompressProcess"]

\* what apply returns, or that it raised
Returned(change_count, should_continue, d) ==
    [change_count |-> change_count, should_continue |-> should_continue, doc |-> d,
     raised |-> FALSE]
Raised(d) == [change_count |-> 0, should_continue |-> FALSE, doc |-> d, raised |-> TRUE]

\* an empty argument table
NoArgs == [k \in {} |-> TRUE]

\* DetectTextActionArgs(**kwargs): extra="forbid", regex required, check_bools
DetectTextArgsValid(args) ==
    /\ DOMAIN args \subseteq {"regex", "stop_if_found", "stop_if_not_found"}
    /\ "regex" \in DOMAIN args
    /\ \/ ("stop_if_found" \in DOMAIN args /\ args["stop_if_found"])
       \/ ("stop_if_not_found" \in DOMAIN args /\ args["stop_if_not_found"])

ArgFlag(args, k) == k \in DOMAIN args /\ args[k]

\* DetectTextAction.apply
DetectTextApply(d, args) ==
    IF ~DetectTextArgsValid(args)
    THEN Returned(0, FALSE, d)
    ELSE LET found_text ==
                 \/ ReSearch(args["regex"], d.text)
                 \/ \E k \in DOMAIN d.metadata : ReSearch(args["regex"], d.metadata[k])
         IN  IF found_text /\ ArgFlag(args, "stop_if_found")
             THEN Returned(1, FALSE, d)
             ELSE IF ~found_text /\ ArgFlag(args, "stop_if_not_found")
             THEN Returned(1, FALSE, d)
             ELSE Returned(1, TRUE, d)

\* DeleteTrailerIDAction.apply: DeleteTrailerIDActionArgs takes no argument
DeleteTrailerIDApply(d, args) ==
    IF DOMAIN args # {}
    THEN Returned(0, FALSE, d)
    ELSE Returned(IF d.trailer_id THEN 1 ELSE 0, TRUE, [d EXCEPT !.trailer_id = FALSE])

\* an element of a list argument: a string holding a regular expression, or a
\* value of another type
StrArg(regex) == [type |-> "str", regex |-> regex]
IntArg == [type |-> "int", regex |-> {}]

\* GatedRegexActionArgs(**kwargs), lines 13-41: "ok", "ValidationError" (caught
\* at line 53), or the exception that compile_clear_regexes lets through:
\* v.encode() of an element that is no string raises AttributeError, which
\* pydantic does not turn into a ValidationError
GatedRegexArgs(args) ==
    IF ~(DOMAIN args \subseteq {"gate_re", "clear_res"}) THEN "ValidationError"
    ELSE IF {"gate_re", "clear_res"} # DOMAIN args THEN "ValidationError"
    ELSE IF \E i \in 1..Len(args["clear_res"]) : args["clear_res"][i].type # "str"
    THEN "AttributeError"
    ELSE "ok"

\* GatedRegexAction.apply
GatedRegexApply(d, args) ==
    LET v == GatedRegexArgs(args)
    IN  IF v = "ValidationError" THEN Returned(0, FALSE, d)
        ELSE IF v # "ok" THEN Raised(d)
        ELSE Returned(IF ReSearch(args["gate_re"], d.text)
                      THEN Cardinality({i \in 1..Len(args["clear_res"]) :
                                           ReSearch(args["clear_res"][i].regex, d.text)})
                      ELSE 0,
                      TRUE, d)

\* action_function.apply(doc=doc, **action.args) for a function of the registry
ActionApply(class, d, args) ==
    IF class = "DetectTextAction" THEN DetectTextApply(d, args)
    ELSE IF class = "GatedRegexAction" THEN GatedRegexApply(d, args)
    ELSE DeleteTrailerIDApply(d, args)

(* ------------------------------ the run -------------------------------- *)
VARIABLES
    plans,      \* config.plans, in mapping order
    sources,    \* config.sources, in mapping order
    force,      \* process(force=)
    dry_run,    \* process(dry_run=)
    run,        \* which call of process() this is
    pc,         \* where process() stands
    src,        \* index of the source of the loop at line 269
    inscope,    \* plans: select_plans_for_source(source, config.plans)
    fidx,       \* index of in_file in in_files (loop at line 289)
    doc,        \* the document opened at line 310, or NoDoc
    plan,       \* index in inscope of the plan selected at line 315, or 0
    aidx,       \* index of the action of apply_actions' loop
    ppidx,      \* index of the name of apply_post_processing's loop
    tempDir,    \* whether the TemporaryDirectory of line 254 exists
    tempFile,   \* content of temp_out_file, or Absent
    realOut,    \* out_file of every input file: [content, mtime] or Absent
    in_mtime,   \* st_mtime of every input file
    outAtStart, \* realOut when this call of process() began
    status,     \* how each file ended in this call of process()
    tfile,      \* the file the loop at line 289 took last
    trace,      \* what was done for that file, in order
    attempts,   \* calls of doc.authenticate on the open document
    evaluated,  \* plans evaluated by select_plan_for_doc for the open document
    handles,    \* number of fitz documents that are open
    action_registry,        \* process(action_registry=): key -> class
    post_process_registry,  \* process(post_process_registry=): key -> class
    config_file,            \* the configuration file main() is given
    package,                \* the classes found under actions/ and post_process/
    progress,    \* the Progress of line 256: its next task id and its tasks
    source_task, \* the task id of line 263, or NoTask
    files_task,  \* the task id of line 285, or NoTask
    temp_name,   \* the name generated at line 308 for each file, 0 before
    uuids,       \* number of calls of uuid.uuid4() so far
    dirFiles,    \* names of the files in temp_dir
    applied      \* calls of post_processor.apply for the file taken last

vars == <<plans, sources, force, dry_run, run, pc, src, inscope, fidx, doc, plan,
          aidx, ppidx, tempDir, tempFile, realOut, in_mtime, outAtStart, status,
          tfile, trace, attempts, evaluated, handles, action_registry,
          post_process_registry, config_file, package, progress, source_task,
          files_task, temp_name, uuids, dirFiles, applied>>

\* the progress display and the two task ids process() keeps
display == <<progress, source_task, files_task>>
\* the temporary names and the files of temp_dir
temps == <<temp_name, uuids, dirFiles>>

\* what process() is called with and never assigns
config == <<plans, sources, force, dry_run, in_mtime, action_registry,
            post_process_registry, config_file, package>>

\* an entry of trace; ok is the should_continue an action returned
Ev(kind, arg) == [kind |-> kind, arg |-> arg, ok |-> TRUE]
EvAction(arg, should_continue) == [kind |-> "action", arg |-> arg, ok |-> should_continue]

\* in_files of source s: the files are <<s, 1>> .. <<s, nfiles>>
FileKeys == {<<s, i>> : s \in 1..2, i \in 1..MaxFiles}
FilesOf(s) == {<<s, i>> : i \in 1..sources[s].nfiles}
CurFile == <<src, fidx>>


(* --------------------------- configuration ---------------------------- *)
ActRejectWatermark ==
    [name |-> "reject-watermark", function |-> "detect-text",
     args |-> [regex |-> {"watermark"}, stop_if_found |-> TRUE]]
ActRequireBody ==
    [name |-> "require-body", function |-> "detect-text",
     args |-> [regex |-> {"body"}, stop_if_not_found |-> TRUE]]
ActDropId ==
    [name |-> "drop-id", function |-> "delete-trailer-id", args |-> NoArgs]
ActBadArgs ==
    [name |-> "bad-args", function |-> "delete-trailer-id", args |-> [pages |-> TRUE]]
ActGatedList ==
    [name |-> "gated", function |-> "gated-regex",
     args |-> [gate_re |-> {"body"}, clear_res |-> <<StrArg({"body"})>>]]
ActGatedIntList ==
    [name |-> "gated-int", function |-> "gated-regex",
     args |-> [gate_re |-> {"body"}, clear_res |-> <<StrArg({"body"}), IntArg>>]]
ActUnknown ==
    [name |-> "unknown", function |-> "no-such-action", args |-> NoArgs]

\* the plans of the configuration the run is checked with
PipelinePlans ==
    << [name |-> "P1", path_regex |-> {"a.pdf"},
        metadata_search |-> <<[field |-> "title", regex |-> {"Draft"}]>>,
        passwords |-> <<"pw1">>,
        actions |-> <<ActRejectWatermark, ActUnknown, ActDropId>>,
        post_process |-> <<"no-such-post-process", "gs-compress">>],
       [name |-> "P2", path_regex |-> Names,
        metadata_search |-> <<>>,
        passwords |-> <<"pw2", "pw1">>,
        actions |-> <<ActDropId, ActRequireBody, ActDropId>>,
        post_process |-> <<>>],
       [name |-> "P3", path_regex |-> {"b.pdf"},
        metadata_search |-> <<>>,
        passwords |-> <<"pw2">>,
        actions |-> <<ActBadArgs, ActDropId>>,
        post_process |-> <<"gs-compress">>] >>

\* the same plans, P3 starting with gated-regex actions
PipelinePlansGated ==
    [PipelinePlans EXCEPT ![3].actions = <<ActGatedList, ActGatedIntList, ActDropId>>]

Source(name, in_exists, out_exists, names, nfiles) ==
    [name |-> name, in_exists |-> in_exists, out_exists |-> out_exists,
     plans |-> names, nfiles |-> nfiles]

\* two sources: the first in scope of all plans, the second of P1 and P3
PipelineSources ==
    { << Source("s1", i1, TRUE, <<>>, MaxFiles),
         Source("s2", TRUE, o2, <<"P3", "P1", "P9">>, 1) >> :
      i1 \in BOOLEAN, o2 \in BOOLEAN }

\* the documents fitz.open may find in an input file
PipelineDocs ==
    { [name |-> n, is_encrypted |-> e[1], accepts |-> e[2], metadata |-> m,
       text |-> t, trailer_id |-> ~e[1]] :
      n \in Names,
      e \in {<<FALSE, {}>>, <<TRUE, {}>>, <<TRUE, {"pw1"}>>},
      m \in {NoMeta, [k \in {"title"} |-> "Draft"]},
      t \in Texts }

(* ------------------------------ helpers -------------------------------- *)
\* A test of the input path alone.
verify_pathsInputOnly(source) ==
    IF ~source.in_exists THEN FALSE
    ELSE TRUE

\* verify_paths(in_path, out_path)
verify_paths(source) ==
    IF ~source.in_exists THEN FALSE
    ELSE IF ~source.out_exists THEN FALSE
    ELSE TRUE

\* A selection that takes every plan for every source.
select_plans_all(source, ps) == ps

\* A selection that takes the plans in the order the source lists them.
select_plans_listed_order(source, ps) ==
    IF Len(source.plans) = 0 THEN ps
    ELSE LET known == SelectSeq(source.plans,
                                LAMBDA n : \E k \in 1..Len(ps) : ps[k].name = n)
         IN  [i \in 1..Len(known) |->
                 ps[CHOOSE k \in 1..Len(ps) : ps[k].name = known[i]]]

\* select_plans_for_source(source, plans)
select_plans_for_source(source, ps) ==
    IF Len(source.plans) = 0 THEN ps
    ELSE SelectSeq(ps, LAMBDA p : \E i \in 1..Len(source.plans) : source.plans[i] = p.name)

\* the time at which this call of process() writes its files
Now == run + 1

Exists(file) == file # AbsentFile

\* out_file of an input file before the first run: none, or one as old as the
\* input, or a newer one
OutStates == {AbsentFile, [content |-> "old", mtime |-> 1], [content |-> "old", mtime |-> 2]}

\* what out_file.exists() and out_file.stat() of line 298 can find at out_file:
\* the state of an output path is drawn when a run first looks at it
Observed(f) == IF realOut[f] = Unread THEN OutStates ELSE {realOut[f]}

\* A staleness test with the comparison turned round.
UpToDateReversed(f, out) ==
    /\ ~force
    /\ Exists(out)
    /\ out.mtime < in_mtime[f]

\* the staleness test of lines 296-300, out being the file at out_file
UpToDate(f, out) ==
    /\ ~force
    /\ Exists(out)
    /\ out.mtime > in_mtime[f]

Log(kind, arg) == Append(trace, Ev(kind, arg))

\* the value None of source_task (line 268)
NoTask == -1
NoTasks == [i \in {} |-> [total |-> 0, completed |-> 0]]
\* Progress(...) of line 256: no task yet, the first task id is 0
NoProgress == [index |-> 0, tasks |-> NoTasks]

\* progress.add_task(description, total=total): the new task id and the display
add_task(p, total) ==
    [task |-> p.index,
     progress |-> [index |-> p.index + 1,
                   tasks |-> [i \in DOMAIN p.tasks \cup {p.index} |->
                                 IF i = p.index THEN [total |-> total, completed |-> 0]
                                 ELSE p.tasks[i]]]]

\* progress.update(task, advance=1)
update(p, task) == [p EXCEPT !.tasks[task].completed = @ + 1]

\* progress.remove_task(task)
remove_task(p, task) == [p EXCEPT !.tasks = [i \in DOMAIN p.tasks \ {task} |-> p.tasks[i]]]

\* the truth value of a task id in "if source_task:": None and 0 are false
Truthy(task) == task # NoTask /\ task # 0

\* lines 278-279 and 341-342: if source_task: progress.update(source_task, advance=1)
AdvanceSource(p, task) == IF Truthy(task) THEN update(p, task) ELSE p

\* A name made once for the run and used for every file.
uuid4Once == run

\* str(uuid.uuid4()) of line 308: a name no earlier call returned
uuid4 == uuids + 1

\* temp_out_file of the file the loop is at
temp_out_file == temp_name[CurFile]


(* ------------------------------ process() ------------------------------ *)
\* lines 254-268: the temporary directory and the progress display are set up
Begin ==
    /\ pc = "start"
    /\ tempDir' = TRUE
    /\ src' = 1
    /\ pc' = "source"
    /\ IF Len(sources) > 1
       THEN /\ progress' = add_task(NoProgress, Len(sources)).progress
            /\ source_task' = add_task(NoProgress, Len(sources)).task
       ELSE /\ progress' = NoProgress
            /\ source_task' = NoTask
    /\ files_task' = NoTask
    /\ temp_name' = [f \in FileKeys |-> 0]
    /\ applied' = <<>>
    /\ UNCHANGED <<uuids, dirFiles>>
    /\ UNCHANGED <<config, run, handles, inscope, fidx, doc, plan, aidx, ppidx, tempFile,
                   realOut, outAtStart, status, tfile, trace, attempts, evaluated>>

\* lines 269-288: the next source; verify_paths, the plans in scope, the file list
VerifySource ==
    /\ pc = "source"
    /\ src <= Len(sources)
    /\ IF ~verify_paths(sources[src])
       THEN /\ src' = src + 1
            /\ progress' = AdvanceSource(progress, source_task)
            /\ UNCHANGED <<pc, inscope, fidx, files_task>>
       ELSE /\ inscope' = select_plans_for_source(sources[src], plans)
            /\ fidx' = 1
            /\ pc' = "file"
            /\ progress' = add_task(progress, sources[src].nfiles).progress
            /\ files_task' = add_task(progress, sources[src].nfiles).task
            /\ UNCHANGED src
    /\ UNCHANGED <<source_task, temps, applied>>
    /\ UNCHANGED <<config, run, handles, doc, plan, aidx, ppidx, tempDir, tempFile,
                   realOut, outAtStart, status, tfile, trace, attempts, evaluated>>

\* the loop over config.sources is over: both with-blocks exit, process() returns
Finish ==
    /\ pc = "source"
    /\ src > Len(sources)
    /\ tempDir' = FALSE
    /\ tempFile' = AbsentFile
    /\ dirFiles' = {}
    /\ pc' = "done"
    /\ UNCHANGED <<display, temp_name, uuids, applied>>
    /\ UNCHANGED <<config, run, handles, src, inscope, fidx, doc, plan, aidx, ppidx,
                   realOut, outAtStart, status, tfile, trace, attempts, evaluated>>

\* A loop that goes to the next file with the document still open.
NextFileLeavesOpen(how, kind) ==
    /\ status' = [status EXCEPT ![CurFile] = how]
    /\ trace' = Log(kind, "")
    /\ UNCHANGED <<tfile, doc, handles>>
    /\ progress' = update(progress, files_task)
    /\ UNCHANGED <<source_task, files_task>>
    /\ fidx' = fidx + 1
    /\ pc' = "file"
    /\ plan' = 0
    /\ aidx' = 1
    /\ ppidx' = 1

\* the continue statements of lines 303, 314, 318, 322 and the fall-through of
\* line 339: the document (if open) is closed and the loop takes the next file
NextFile(how, kind) ==
    /\ status' = [status EXCEPT ![CurFile] = how]
    /\ trace' = Log(kind, "")
    /\ UNCHANGED tfile
    /\ doc' = NoDoc
    /\ handles' = handles - 1
    /\ progress' = update(progress, files_task)
    /\ UNCHANGED <<source_task, files_task>>
    /\ fidx' = fidx + 1
    /\ pc' = "file"
    /\ plan' = 0
    /\ aidx' = 1
    /\ ppidx' = 1

\* an exception leaves the statement that raised it
Raise ==
    /\ pc' = "raising"
    /\ status' = [status EXCEPT ![CurFile] = "error"]
    /\ UNCHANGED <<tfile, display>>

\* lines 289-310: the next file; the staleness test, then fitz.open
EvaluateFile ==
    /\ pc = "file"
    /\ fidx <= sources[src].nfiles
    /\ \E out \in Observed(CurFile) :
           /\ realOut' = [realOut EXCEPT ![CurFile] = out]
           /\ outAtStart' = IF realOut[CurFile] = Unread
                            THEN [outAtStart EXCEPT ![CurFile] = out]
                            ELSE outAtStart
           /\ IF UpToDate(CurFile, out)
              THEN /\ status' = [status EXCEPT ![CurFile] = "skipped"]
                   /\ trace' = <<Ev("stale", "")>>
                   /\ fidx' = fidx + 1
                   /\ progress' = update(progress, files_task)
                   /\ UNCHANGED <<pc, doc, handles, attempts, evaluated, plan, aidx, ppidx,
                                  source_task, files_task, temp_name, uuids, applied>>
              ELSE \/ \E d \in PipelineDocs :
                        /\ doc' = d
                        /\ handles' = handles + 1
                        /\ pc' = "auth"
                        /\ trace' = <<Ev("open", "")>>
                        /\ attempts' = <<>>
                        /\ evaluated' = <<>>
                        /\ temp_name' = [temp_name EXCEPT ![CurFile] = uuid4]
                        /\ uuids' = uuids + 1
                        /\ applied' = <<>>
                        /\ UNCHANGED <<status, fidx, plan, aidx, ppidx, display>>
                   \/ /\ pc' = "raising"
                      /\ status' = [status EXCEPT ![CurFile] = "error"]
                      /\ trace' = <<Ev("open_failed", "")>>
                      /\ temp_name' = [temp_name EXCEPT ![CurFile] = uuid4]
                      /\ uuids' = uuids + 1
                      /\ applied' = <<>>
                      /\ UNCHANGED <<doc, handles, fidx, attempts, evaluated, plan, aidx,
                                     ppidx, display>>
    /\ tfile' = CurFile
    /\ UNCHANGED dirFiles
    /\ UNCHANGED <<config, run, src, inscope, tempDir, tempFile>>

\* line 340: the files of the source are done
EndSource ==
    /\ pc = "file"
    /\ fidx > sources[src].nfiles
    /\ src' = src + 1
    /\ pc' = "source"
    /\ progress' = AdvanceSource(remove_task(progress, files_task), source_task)
    /\ UNCHANGED <<source_task, files_task, temps, applied>>
    /\ UNCHANGED <<config, run, handles, inscope, fidx, doc, plan, aidx, ppidx, tempDir,
                   tempFile, realOut, outAtStart, status, tfile, trace, attempts, evaluated>>

\* lines 311-314: do_authentication
Authenticate ==
    /\ pc = "auth"
    /\ LET r == do_authentication(doc, inscope)
       IN  /\ attempts' = r.tried
           /\ IF ~r.ok
              THEN NextFile("skipped", "auth_failed")
              ELSE /\ pc' = "select"
                   /\ trace' = Log("auth", "")
                   /\ UNCHANGED <<doc, handles, fidx, status, tfile, plan, aidx, ppidx,
                                  display>>
    /\ UNCHANGED <<temps, applied>>
    /\ UNCHANGED <<config, run, src, inscope, tempDir, tempFile, realOut, outAtStart,
                   evaluated>>

\* lines 315-318: select_plan_for_doc
SelectPlan ==
    /\ pc = "select"
    /\ LET r == select_plan_for_doc(doc, inscope)
       IN  /\ evaluated' = r.evaluated
           /\ IF r.plan = 0
              THEN NextFile("skipped", "no_plan")
              ELSE /\ plan' = r.plan
                   /\ pc' = "actions"
                   /\ aidx' = 1
                   /\ trace' = Log("select", inscope[r.plan].name)
                   /\ UNCHANGED <<doc, handles, fidx, status, tfile, ppidx, display>>
    /\ UNCHANGED <<temps, applied>>
    /\ UNCHANGED <<config, run, src, inscope, tempDir, tempFile, realOut,
                   outAtStart, attempts>>

\* A loop that does not look at should_continue.
ActionTurnIgnoresStop(a, d) ==
    IF a.function \notin DOMAIN action_registry
    THEN [turn |-> "missing", doc |-> d, result |-> <<0, TRUE>>]
    ELSE LET r == ActionApply(action_registry[a.function], d, a.args)
         IN  IF r.raised
             THEN [turn |-> "raise", doc |-> d, result |-> <<0, FALSE>>]
             ELSE
             [turn |-> "next", doc |-> r.doc,
              result |-> <<r.change_count, r.should_continue>>]

\* A loop that returns False at an action that is not in the registry.
ActionTurnMissingHalts(a, d) ==
    IF a.function \notin DOMAIN action_registry
    THEN [turn |-> "halt", doc |-> d, result |-> <<0, FALSE>>]
    ELSE LET r == ActionApply(action_registry[a.function], d, a.args)
         IN  IF r.raised
             THEN [turn |-> "raise", doc |-> d, result |-> <<0, FALSE>>]
             ELSE IF ~r.should_continue
             THEN [turn |-> "halt", doc |-> r.doc,
                   result |-> <<r.change_count, r.should_continue>>]
             ELSE [turn |-> "next", doc |-> r.doc,
                   result |-> <<r.change_count, r.should_continue>>]

\* what one turn of the loop of apply_actions (lines 128-148) does with the
\* action a: "missing" (not in the registry), "halt" (return False) or "next"
ActionTurn(a, d) ==
    IF a.function \notin DOMAIN action_registry
    THEN [turn |-> "missing", doc |-> d, result |-> <<0, TRUE>>]
    ELSE LET r == ActionApply(action_registry[a.function], d, a.args)
         IN  IF r.raised
             THEN [turn |-> "raise", doc |-> d, result |-> <<0, FALSE>>]
             ELSE IF ~r.should_continue
             THEN [turn |-> "halt", doc |-> r.doc,
                   result |-> <<r.change_count, r.should_continue>>]
             ELSE [turn |-> "next", doc |-> r.doc,
                   result |-> <<r.change_count, r.should_continue>>]

\* lines 319-322 and 128-148: one action of the plan
ApplyAction ==
    /\ pc = "actions"
    /\ aidx <= Len(inscope[plan].actions)
    /\ LET a == inscope[plan].actions[aidx]
           t == ActionTurn(a, doc)
       IN  IF t.turn = "missing"
           THEN /\ aidx' = aidx + 1
                /\ trace' = Log("action_missing", a.name)
                /\ UNCHANGED <<pc, doc, handles, fidx, status, tfile, plan, ppidx,
                               display>>
           ELSE IF t.turn = "raise"
           THEN /\ Raise
                /\ trace' = Log("action_raised", a.name)
                /\ UNCHANGED <<doc, handles, fidx, plan, aidx, ppidx>>
           ELSE IF t.turn = "halt"
           THEN /\ status' = [status EXCEPT ![CurFile] = "skipped"]
                /\ trace' = Append(trace, EvAction(a.name, t.result[2]))
                /\ UNCHANGED tfile
                /\ doc' = NoDoc
                /\ handles' = handles - 1
                /\ progress' = update(progress, files_task)
                /\ UNCHANGED <<source_task, files_task>>
                /\ fidx' = fidx + 1
                /\ pc' = "file"
                /\ plan' = 0
                /\ aidx' = 1
                /\ ppidx' = 1
           ELSE /\ aidx' = aidx + 1
                /\ doc' = t.doc
                /\ trace' = Append(trace, EvAction(a.name, t.result[2]))
                /\ UNCHANGED <<pc, handles, fidx, status, tfile, plan, ppidx, display>>
    /\ UNCHANGED <<temps, applied>>
    /\ UNCHANGED <<config, run, src, inscope, tempDir, tempFile,
                   realOut, outAtStart, attempts, evaluated>>

\* A loop that is over before the last action.
ActionsDoneEarly == TRUE

\* apply_actions came to line 149: the loop over plan.actions is over
ActionsDone == aidx > Len(inscope[plan].actions)

\* A save that writes out_file itself.
SaveTargetOut == "out"

\* the path save_pdf writes (line 323: temp_out_file)
SaveTarget == "temp"

\* line 323 and save_pdf: apply_actions returned True; doc.save writes the file,
\* or fails and may leave a truncated file behind
Save ==
    /\ pc = "actions"
    /\ ActionsDone
    /\ \/ /\ IF SaveTarget = "temp"
             THEN /\ tempFile' = [content |-> "saved", mtime |-> Now]
                  /\ dirFiles' = dirFiles \cup {temp_out_file}
                  /\ UNCHANGED realOut
             ELSE /\ realOut' = [realOut EXCEPT ![CurFile] =
                                     [content |-> "saved", mtime |-> Now]]
                  /\ UNCHANGED <<tempFile, dirFiles>>
          /\ pc' = "post"
          /\ ppidx' = 1
          /\ trace' = Log("save", "")
          /\ UNCHANGED <<status, tfile, display>>
       \/ /\ \E left \in {"nothing", "partial"} :
                 IF left = "nothing" THEN UNCHANGED <<tempFile, realOut, dirFiles>>
                 ELSE IF SaveTarget = "temp"
                 THEN /\ tempFile' = [content |-> "partial", mtime |-> Now]
                      /\ dirFiles' = dirFiles \cup {temp_out_file}
                      /\ UNCHANGED realOut
                 ELSE /\ realOut' = [realOut EXCEPT ![CurFile] =
                                         [content |-> "partial", mtime |-> Now]]
                      /\ UNCHANGED <<tempFile, dirFiles>>
          /\ Raise
          /\ trace' = Log("save_failed", "")
          /\ UNCHANGED ppidx
    /\ UNCHANGED <<temp_name, uuids, applied>>
    /\ UNCHANGED <<config, run, handles, src, inscope, fidx, doc, plan, aidx, tempDir,
                   outAtStart, attempts, evaluated>>

\* A post-processor that replaces out_path whatever gs returned.
GsOutcomeAlwaysReplaces(returncode) ==
    [replaced |-> TRUE, logged |-> IF returncode # 0 THEN "post_error" ELSE "post"]

\* gs_compress.py lines 67-77: a non-zero return code is logged and out_path is
\* left alone; with zero the compressed file replaces out_path
GsOutcome(returncode) ==
    IF returncode # 0
    THEN [replaced |-> FALSE, logged |-> "post_error"]
    ELSE [replaced |-> TRUE, logged |-> "post"]

\* what gs leaves in its own temporary file
GsOutput(returncode) == IF returncode = 0 THEN "compressed" ELSE "gs_partial"

\* a call post_processor.apply(in_path=.., out_path=..) of line 219
PostCall(name, in_path, out_path) ==
    [name |-> name, in_path |-> in_path, out_path |-> out_path]

\* lines 325-327: apply_post_processing(in_file, temp_out_file, ..) hands on
\* the input file and the temporary output file
PostArgs == [in_path |-> <<"in_file", CurFile>>, out_path |-> <<"temp_dir", temp_out_file>>]

\* A loop that ends at a name that is not in the registry.
PostProcessStopsAtUnknown ==
    /\ pc = "post"
    /\ ppidx <= Len(inscope[plan].post_process)
    /\ LET post_processor_name == inscope[plan].post_process[ppidx]
       IN  IF post_processor_name \notin DOMAIN post_process_registry
           THEN /\ ppidx' = Len(inscope[plan].post_process) + 1
                /\ trace' = Log("post_missing", post_processor_name)
                /\ UNCHANGED <<pc, handles, applied>>
           ELSE /\ pc' = "gs"
                /\ handles' = handles + 1
                /\ applied' = Append(applied, PostCall(post_processor_name,
                                                       PostArgs.in_path, PostArgs.out_path))
                /\ UNCHANGED <<ppidx, trace>>
    /\ UNCHANGED <<display, temps>>
    /\ UNCHANGED <<config, run, src, inscope, fidx, doc, plan, aidx, tempDir, tempFile,
                   realOut, outAtStart, status, tfile, attempts, evaluated>>

\* lines 211-219: the next name of plan.post_process; an unknown name is
\* skipped, GSCompressProcess.apply begins by opening in_path (line 32)
PostProcess ==
    /\ pc = "post"
    /\ ppidx <= Len(inscope[plan].post_process)
    /\ LET post_processor_name == inscope[plan].post_process[ppidx]
       IN  IF post_processor_name \notin DOMAIN post_process_registry
           THEN /\ ppidx' = ppidx + 1
                /\ trace' = Log("post_missing", post_processor_name)
                /\ UNCHANGED <<pc, handles, applied>>
           ELSE /\ pc' = "gs"
                /\ handles' = handles + 1
                /\ applied' = Append(applied, PostCall(post_processor_name,
                                                       PostArgs.in_path, PostArgs.out_path))
                /\ UNCHANGED <<ppidx, trace>>
    /\ UNCHANGED <<display, temps>>
    /\ UNCHANGED <<config, run, src, inscope, fidx, doc, plan, aidx, tempDir, tempFile,
                   realOut, outAtStart, status, tfile, attempts, evaluated>>

\* gs_compress.py lines 33-77: the metadata is read and in_path closed, gs runs
\* into a file of its own directory and returns a code; or apply raises (gs
\* cannot be started, fitz.open or saveIncr fails)
GsCompress ==
    /\ pc = "gs"
    /\ handles' = handles - 1
    /\ LET post_processor_name == inscope[plan].post_process[ppidx]
       IN  \/ \E returncode \in {0, 1} :
                 LET o == GsOutcome(returncode)
                 IN  /\ tempFile' = IF o.replaced
                                    THEN [content |-> GsOutput(returncode), mtime |-> Now]
                                    ELSE tempFile
                     /\ trace' = Log(o.logged, post_processor_name)
                     /\ ppidx' = ppidx + 1
                     /\ pc' = "post"
                     /\ UNCHANGED <<status, tfile, display>>
           \/ /\ Raise
              /\ trace' = Log("post_raised", post_processor_name)
              /\ UNCHANGED <<ppidx, tempFile>>
    /\ UNCHANGED <<temps, applied>>
    /\ UNCHANGED <<config, run, src, inscope, fidx, doc, plan, aidx, tempDir,
                   realOut, outAtStart, attempts, evaluated>>

\* line 329: size_report stats both files; a stat that fails raises
SizeReport ==
    /\ pc = "post"
    /\ ppidx > Len(inscope[plan].post_process)
    /\ \/ /\ pc' = "commit"
          /\ trace' = Log("size", "")
          /\ UNCHANGED <<status, tfile, display>>
       \/ /\ Raise
          /\ trace' = Log("size_failed", "")
    /\ UNCHANGED <<temps, applied>>
    /\ UNCHANGED <<config, run, handles, src, inscope, fidx, doc, plan, aidx, ppidx, tempDir,
                   tempFile, realOut, outAtStart, attempts, evaluated>>

\* A commit that does not look at dry_run.
CommitIgnoresDryRun ==
    /\ pc = "commit"
    /\ realOut' = [realOut EXCEPT ![CurFile] = tempFile]
    /\ tempFile' = AbsentFile
    /\ dirFiles' = dirFiles \ {temp_out_file}
    /\ UNCHANGED <<temp_name, uuids, applied>>
    /\ NextFile(IF dry_run THEN "discarded" ELSE "committed",
                IF dry_run THEN "discard" ELSE "commit")
    /\ UNCHANGED <<config, run, src, inscope, tempDir, outAtStart, attempts, evaluated>>

\* lines 331-339: dry run unlinks the temporary file, otherwise it replaces out_file
Commit ==
    /\ pc = "commit"
    /\ IF dry_run
       THEN /\ tempFile' = AbsentFile
            /\ dirFiles' = dirFiles \ {temp_out_file}
            /\ NextFile("discarded", "discard")
            /\ UNCHANGED realOut
       ELSE \/ /\ realOut' = [realOut EXCEPT ![CurFile] = tempFile]
               /\ tempFile' = AbsentFile
               /\ dirFiles' = dirFiles \ {temp_out_file}
               /\ NextFile("committed", "commit")
            \* mkdir or replace raises OSError: out_file is left as it was
            \/ /\ Raise
               /\ trace' = Log("commit_failed", "")
               /\ UNCHANGED <<doc, handles, fidx, tempFile, realOut, plan, aidx, ppidx,
                              dirFiles>>
    /\ UNCHANGED <<temp_name, uuids, applied>>
    /\ UNCHANGED <<config, run, src, inscope, tempDir, outAtStart, attempts, evaluated>>

\* An exception that leaves the temporary directory behind.
UnwindKeepsDir ==
    /\ pc = "raising"
    /\ doc' = NoDoc
    /\ handles' = IF doc = NoDoc THEN handles ELSE handles - 1
    /\ pc' = "aborted"
    /\ UNCHANGED <<config, run, src, inscope, fidx, plan, aidx, ppidx, realOut,
                   outAtStart, status, tfile, trace, attempts, evaluated, tempDir,
                   tempFile, display, temps, applied>>

\* the exception leaves process(): line 310 closes the document, line 254
\* removes the temporary directory and what is in it
Unwind ==
    /\ pc = "raising"
    /\ doc' = NoDoc
    /\ handles' = IF doc = NoDoc THEN handles ELSE handles - 1
    /\ tempFile' = AbsentFile
    /\ dirFiles' = {}
    /\ tempDir' = FALSE
    /\ pc' = "aborted"
    /\ UNCHANGED <<display, temp_name, uuids, applied>>
    /\ UNCHANGED <<config, run, src, inscope, fidx, plan, aidx, ppidx, realOut,
                   outAtStart, status, tfile, trace, attempts, evaluated>>

\* process() is called again with the same configuration
Rerun ==
    /\ pc = "done"
    /\ run < MaxRuns
    /\ run' = run + 1
    /\ pc' = "start"
    /\ src' = 1
    /\ fidx' = 1
    /\ plan' = 0
    /\ aidx' = 1
    /\ ppidx' = 1
    /\ inscope' = <<>>
    /\ outAtStart' = realOut
    /\ status' = [f \in FileKeys |-> "pending"]
    /\ tfile' = <<0, 0>>
    /\ trace' = <<>>
    /\ attempts' = <<>>
    /\ evaluated' = <<>>
    /\ UNCHANGED <<config, doc, handles, tempDir, tempFile, realOut, display, temps,
                   applied>>

(* -------------------------------- main() ------------------------------- *)
\* a class found in a module: registry_id is a class attribute or is not set
Impl(class, has_id, registry_id) ==
    [class |-> class, has_id |-> has_id, registry_id |-> registry_id]

NoRegistry == [k \in {} |-> ""]

\* A discovery in which a later class takes the key of an earlier one.
RECURSIVE DiscoverLastWins(_, _, _)
DiscoverLastWins(impls, i, registry) ==
    IF i > Len(impls) THEN [error |-> "none", registry |-> registry]
    ELSE LET obj == impls[i]
         IN  IF ~obj.has_id THEN [error |-> "AttributeError", registry |-> NoRegistry]
             ELSE IF obj.registry_id = ""
             THEN [error |-> "ValueError", registry |-> NoRegistry]
             ELSE DiscoverLastWins(impls, i + 1,
                      [k \in DOMAIN registry \cup {obj.registry_id} |->
                          IF k = obj.registry_id THEN obj.class ELSE registry[k]])

\* the loop of discover_and_register (lines 26-46) from the i-th class on:
\* obj.register() returns cls.registry_id, or raises AttributeError when the
\* class does not set it
RECURSIVE Discover(_, _, _)
Discover(impls, i, registry) ==
    IF i > Len(impls) THEN [error |-> "none", registry |-> registry]
    ELSE LET obj == impls[i]
         IN  IF ~obj.has_id THEN [error |-> "AttributeError", registry |-> NoRegistry]
             ELSE LET nice_name == obj.registry_id
                  IN  IF nice_name # ""
                      THEN IF nice_name \in DOMAIN registry
                           THEN [error |-> "ValueError", registry |-> NoRegistry]
                           ELSE Discover(impls, i + 1,
                                    [k \in DOMAIN registry \cup {nice_name} |->
                                        IF k = nice_name THEN obj.class ELSE registry[k]])
                      ELSE [error |-> "ValueError", registry |-> NoRegistry]

discover_and_register(impls) == Discover(impls, 1, NoRegistry)

\* the classes as they are in the repository, in the order of iter_modules
PackageShipped ==
    [actions |-> << Impl("ClearStreamAction", TRUE, "clear-stream"),
                    Impl("DeletePieceInfoAction", TRUE, "delete-piece-info"),
                    Impl("DeleteTrailerIDAction", TRUE, "delete-trailer-id"),
                    Impl("DetectTextAction", TRUE, "detect-text"),
                    Impl("ClearEncodingDifferencesAction", TRUE, "clear-encoding-differences"),
                    Impl("GatedRegexAction", FALSE, ""),
                    Impl("KeepPagesAction", FALSE, "") >>,
     post_process |-> << Impl("GSCompressProcess", TRUE, "gs-compress"),
                         Impl("SizeReport", FALSE, "") >>]

\* a package whose classes all set registry_id, to distinct keys
PackageGood ==
    [actions |-> << Impl("DeleteTrailerIDAction", TRUE, "delete-trailer-id"),
                    Impl("DetectTextAction", TRUE, "detect-text"),
                    Impl("GatedRegexAction", TRUE, "gated-regex") >>,
     post_process |-> << Impl("GSCompressProcess", TRUE, "gs-compress") >>]

\* two classes with one key, among the actions or among the post-processors
PackageDuplicateAction ==
    [PackageGood EXCEPT !.actions = Append(@, Impl("KeepPagesAction", TRUE, "detect-text"))]
PackageDuplicatePost ==
    [PackageGood EXCEPT !.post_process = Append(@, Impl("SizeReport", TRUE, "gs-compress"))]

\* the actions table of the configuration file: key -> entry
ActionNames ==
    {"reject-watermark", "require-body", "drop-id", "bad-args", "unknown", "gated",
     "gated-int"}
ActionTable ==
    [n \in ActionNames |->
        CASE n = "reject-watermark" -> ActRejectWatermark
          [] n = "require-body" -> ActRequireBody
          [] n = "drop-id" -> ActDropId
          [] n = "bad-args" -> ActBadArgs
          [] n = "unknown" -> ActUnknown
          [] n = "gated" -> ActGatedList
          [] n = "gated-int" -> ActGatedIntList]

\* the keys a plan of the file lists under actions
ActionKeys(p) == [j \in 1..Len(p.actions) |-> p.actions[j].name]

\* the configuration file that holds the plans ps and the sources srcs
FileOf(ps, srcs) ==
    [shape |-> "ok",
     actions |-> ActionTable,
     plans |-> [k \in 1..Len(ps) |-> [ps[k] EXCEPT !.actions = ActionKeys(ps[k])]],
     sources |-> srcs]

\* A resolution that drops the names the actions table does not hold.
ResolveActionsDropsUnknown(file) ==
    [error |-> FALSE,
     plans |-> [k \in 1..Len(file.plans) |->
                   [file.plans[k] EXCEPT !.actions =
                       LET known == SelectSeq(@, LAMBDA n : n \in DOMAIN file.actions)
                       IN  [j \in 1..Len(known) |-> file.actions[known[j]]]]]]

\* Config.resolve_actions (config_model.py lines 102-122): a name that the
\* actions table does not hold raises, otherwise every name is replaced by its
\* entry
ResolveActions(file) ==
    IF \E k \in 1..Len(file.plans) :
           \E j \in 1..Len(file.plans[k].actions) :
               file.plans[k].actions[j] \notin DOMAIN file.actions
    THEN [error |-> TRUE, plans |-> <<>>]
    ELSE [error |-> FALSE,
          plans |-> [k \in 1..Len(file.plans) |->
                        [file.plans[k] EXCEPT !.actions =
                            [j \in 1..Len(@) |-> file.actions[@[j]]]]]]

\* read_config (pdf_access.py lines 23-45): the file is missing, is no TOML,
\* or does not validate as a Config: sys.exit(1)
read_config(file) ==
    IF file.shape = "missing" THEN [exit |-> "missing", plans |-> <<>>]
    ELSE IF file.shape = "undecodable" THEN [exit |-> "TOMLDecodeError", plans |-> <<>>]
    ELSE LET r == ResolveActions(file)
         IN  IF r.error \/ file.shape = "invalid"
             THEN [exit |-> "ValidationError", plans |-> <<>>]
             ELSE [exit |-> "none", plans |-> r.plans]

\* main() line 162: config = read_config(args.config_file)
ReadConfig ==
    /\ pc = "main"
    /\ LET r == read_config(config_file)
       IN  IF r.exit # "none"
           THEN /\ pc' = "exit"
                /\ trace' = <<Ev(r.exit, "")>>
                /\ UNCHANGED <<plans, sources>>
           ELSE /\ pc' = "registries"
                /\ plans' = r.plans
                /\ sources' = config_file.sources
                /\ UNCHANGED trace
    /\ UNCHANGED <<force, dry_run, in_mtime, action_registry, post_process_registry,
                   config_file, package, run, src, inscope, fidx, doc, plan, aidx,
                   ppidx, tempDir, tempFile, realOut, outAtStart, status, tfile,
                   attempts, evaluated, handles, display, temps, applied>>

\* main() line 164 and get_registries (lines 48-60): the actions are
\* discovered, then the post-processors; an exception of either ends main()
GetRegistries ==
    /\ pc = "registries"
    /\ LET a == discover_and_register(package.actions)
           p == discover_and_register(package.post_process)
       IN  IF a.error # "none"
           THEN /\ pc' = "exit"
                /\ trace' = <<Ev(a.error, "actions")>>
                /\ UNCHANGED <<action_registry, post_process_registry>>
           ELSE IF p.error # "none"
           THEN /\ pc' = "exit"
                /\ trace' = <<Ev(p.error, "post_process")>>
                /\ UNCHANGED <<action_registry, post_process_registry>>
           ELSE /\ pc' = "start"
                /\ action_registry' = a.registry
                /\ post_process_registry' = p.registry
                /\ UNCHANGED trace
    /\ UNCHANGED <<plans, sources, force, dry_run, in_mtime, config_file, package,
                   run, src, inscope, fidx, doc, plan, aidx, ppidx, tempDir, tempFile,
                   realOut, outAtStart, status, tfile, attempts, evaluated, handles,
                   display, temps, applied>>

(* --------------------------- specifications ---------------------------- *)
\* the locals of process() and the files, before anything ran
InitLocals ==
    /\ run = 1
    /\ src = 1
    /\ fidx = 1
    /\ plan = 0
    /\ aidx = 1
    /\ ppidx = 1
    /\ inscope = <<>>
    /\ doc = NoDoc
    /\ handles = 0
    /\ tempDir = FALSE
    /\ tempFile = AbsentFile
    /\ outAtStart = realOut
    /\ status = [f \in FileKeys |-> "pending"]
    /\ tfile = <<0, 0>>
    /\ trace = <<>>
    /\ attempts = <<>>
    /\ evaluated = <<>>
    /\ progress = NoProgress
    /\ source_task = NoTask
    /\ files_task = NoTask
    /\ temp_name = [f \in FileKeys |-> 0]
    /\ uuids = 0
    /\ dirFiles = {}
    /\ applied = <<>>

\* process() is called with the loaded configuration and the registries
InitRun ==
    /\ pc = "start"
    /\ config_file = FileOf(plans, sources)
    /\ package = PackageGood
    /\ action_registry = ActionRegistry
    /\ post_process_registry = PostProcessRegistry
    /\ InitLocals

Init ==
    /\ plans \in {PipelinePlans, PipelinePlansGated}
    /\ sources \in PipelineSources
    /\ force \in BOOLEAN
    /\ dry_run \in BOOLEAN
    /\ in_mtime = [f \in FileKeys |-> 1]
    /\ realOut = [f \in FileKeys |-> Unread]
    /\ InitRun

Next ==
    \/ Begin
    \/ VerifySource
    \/ Finish
    \/ EvaluateFile
    \/ EndSource
    \/ Authenticate
    \/ SelectPlan
    \/ ApplyAction
    \/ Save
    \/ PostProcess
    \/ GsCompress
    \/ SizeReport
    \/ Commit
    \/ Unwind

Spec == Init /\ [][Next]_vars


\* two calls of process() without the force flag, both sources valid
InitTwice ==
    /\ plans = PipelinePlans
    /\ sources = << Source("s1", TRUE, TRUE, <<>>, MaxFiles),
                    Source("s2", TRUE, TRUE, <<"P3", "P1", "P9">>, 1) >>
    /\ force = FALSE
    /\ dry_run \in BOOLEAN
    /\ in_mtime = [f \in FileKeys |-> 1]
    /\ realOut = [f \in FileKeys |-> Unread]
    /\ InitRun

NextTwice == Next \/ Rerun

SpecTwice == InitTwice /\ [][NextTwice]_vars


(* ------------------------- main() on drawn files ----------------------- *)
MainSources ==
    << Source("s1", TRUE, TRUE, <<>>, MaxFiles),
       Source("s2", TRUE, TRUE, <<"P3", "P1", "P9">>, 1) >>

\* configuration files: one that loads, one whose plan P2 names an action the
\* actions table does not hold, one that does not validate, one that is no
\* TOML, and none at all
ConfigFiles ==
    { FileOf(PipelinePlans, MainSources),
      [FileOf(PipelinePlans, MainSources) EXCEPT !.plans[2].actions = <<"drop-id", "ghost">>],
      [FileOf(PipelinePlans, MainSources) EXCEPT !.shape = "invalid"],
      [FileOf(PipelinePlans, MainSources) EXCEPT !.shape = "undecodable"],
      [FileOf(PipelinePlans, MainSources) EXCEPT !.shape = "missing"] }

Packages == {PackageGood, PackageShipped, PackageDuplicateAction, PackageDuplicatePost}

InitMain ==
    /\ pc = "main"
    /\ config_file \in ConfigFiles
    /\ package \in Packages
    /\ plans = <<>>
    /\ sources = <<>>
    /\ action_registry = NoRegistry
    /\ post_process_registry = NoRegistry
    /\ force \in BOOLEAN
    /\ dry_run \in BOOLEAN
    /\ in_mtime = [f \in FileKeys |-> 1]
    /\ realOut = [f \in FileKeys |-> Unread]
    /\ InitLocals

NextMain == ReadConfig \/ GetRegistries \/ Next

SpecMain == InitMain /\ [][NextMain]_vars

(* --------------- discover_and_register on drawn packages --------------- *)
ImplClasses == {"DetectTextAction", "GatedRegexAction", "KeepPagesAction"}
ImplKeys == {"", "detect-text", "keep-pages"}

\* a class that sets registry_id to one of the keys, or does not set it
Impls ==
    {Impl(c, TRUE, k) : c \in ImplClasses, k \in ImplKeys}
        \cup {Impl(c, FALSE, "") : c \in ImplClasses}

ImplSeqs ==
    { s \in SeqsUpTo(Impls, MaxImpls) :
          \A i, j \in 1..Len(s) : i # j => s[i].class # s[j].class }

DrawnPackages ==
    {[actions |-> s, post_process |-> PackageGood.post_process] : s \in ImplSeqs}
        \cup {[actions |-> PackageGood.actions, post_process |-> s] : s \in ImplSeqs}

InitDiscover ==
    /\ pc = "registries"
    /\ plans = PipelinePlans
    /\ sources = MainSources
    /\ config_file = FileOf(plans, sources)
    /\ package \in DrawnPackages
    /\ action_registry = NoRegistry
    /\ post_process_registry = NoRegistry
    /\ force = FALSE
    /\ dry_run = FALSE
    /\ in_mtime = [f \in FileKeys |-> 1]
    /\ realOut = [f \in FileKeys |-> Unread]
    /\ InitLocals

NextDiscover == GetRegistries

SpecDiscover == InitDiscover /\ [][NextDiscover]_vars

(* ------------------ do_authentication on drawn inputs ------------------ *)
\* a plan that only carries passwords
PasswordPlan(name, passwords) ==
    [name |-> name, path_regex |-> Names, metadata_search |-> <<>>,
     passwords |-> passwords, actions |-> <<>>, post_process |-> <<>>]

\* plans named P1, P2, .. in mapping order
Named(ps) == \A k \in 1..Len(ps) : ps[k].name = PlanNameSeq[k]

AuthPlanLists ==
    { ps \in SeqsUpTo({PasswordPlan(n, pw) : n \in {PlanNameSeq[k] : k \in 1..MaxPlans},
                                             pw \in SeqsUpTo(Passwords, MaxPasswords)},
                      MaxPlans) : Named(ps) }

AuthDocs ==
    { [name |-> "a.pdf", is_encrypted |-> e, accepts |-> acc, metadata |-> NoMeta,
       text |-> "body", trailer_id |-> FALSE] : e \in BOOLEAN, acc \in SUBSET Passwords }

\* one source with one file, opened and about to be authenticated (line 311)
InitOpened(next_pc) ==
    /\ sources = << Source("s1", TRUE, TRUE, <<>>, 1) >>
    /\ force \in BOOLEAN
    /\ dry_run = FALSE
    /\ in_mtime = [f \in FileKeys |-> 1]
    /\ realOut = [f \in FileKeys |-> IF f = <<1, 1>> THEN AbsentFile ELSE Unread]
    /\ outAtStart = realOut
    /\ run = 1
    /\ pc = next_pc
    /\ src = 1
    /\ fidx = 1
    /\ plan = 0
    /\ aidx = 1
    /\ ppidx = 1
    /\ inscope = plans
    /\ handles = 1
    /\ action_registry = ActionRegistry
    /\ post_process_registry = PostProcessRegistry
    /\ config_file = FileOf(plans, sources)
    /\ package = PackageGood
    /\ tempDir = TRUE
    /\ tempFile = AbsentFile
    /\ status = [f \in FileKeys |-> "pending"]
    /\ tfile = <<1, 1>>
    /\ attempts = <<>>
    /\ evaluated = <<>>
    /\ progress = add_task(NoProgress, 1).progress
    /\ source_task = NoTask
    /\ files_task = add_task(NoProgress, 1).task
    /\ temp_name = [f \in FileKeys |-> IF f = <<1, 1>> THEN 1 ELSE 0]
    /\ uuids = 1
    /\ dirFiles = {}
    /\ applied = <<>>

InitAuth ==
    /\ plans \in AuthPlanLists
    /\ doc \in AuthDocs
    /\ trace = <<Ev("open", "")>>
    /\ InitOpened("auth")

NextAuth == Authenticate

SpecAuth == InitAuth /\ [][NextAuth]_vars

(* ----------------- select_plan_for_doc on drawn inputs ----------------- *)
PathRegexes == {{"a.pdf"}, Names}
ValueRegexes == {{"Draft"}, Values}

\* plan.metadata_search: distinct fields, each with a regex, in mapping order
SearchMaps ==
    { ms \in SeqsUpTo([field : Fields, regex : ValueRegexes], MaxSearch) :
          \A i, j \in 1..Len(ms) : i # j => ms[i].field # ms[j].field }

\* a plan that only carries match criteria
MatchPlan(name, path_regex, metadata_search) ==
    [name |-> name, path_regex |-> path_regex, metadata_search |-> metadata_search,
     passwords |-> <<>>, actions |-> <<>>, post_process |-> <<>>]

SelectPlanLists ==
    { ps \in SeqsUpTo({MatchPlan(n, pr, ms) : n \in {PlanNameSeq[k] : k \in 1..MaxPlans},
                                              pr \in PathRegexes, ms \in SearchMaps},
                      MaxPlans) : Named(ps) }

SelectDocs ==
    { [name |-> n, is_encrypted |-> FALSE, accepts |-> {}, metadata |-> m,
       text |-> "body", trailer_id |-> FALSE] : n \in Names, m \in Metas }

InitSelect ==
    /\ plans \in SelectPlanLists
    /\ doc \in SelectDocs
    /\ trace = <<Ev("open", ""), Ev("auth", "")>>
    /\ InitOpened("select")

NextSelect == SelectPlan

SpecSelect == InitSelect /\ [][NextSelect]_vars


(* ------------------------------- claims -------------------------------- *)
MinOf(S) == CHOOSE x \in S : \A y \in S : x <= y
Kinds == {trace[i].kind : i \in 1..Len(trace)}
LastEv == trace[Len(trace)]

\* the plan p satisfies both conditions of the matcher for the document d
PlanMatches(d, p) ==
    /\ ReSearch(p.path_regex, d.name)
    /\ \A j \in 1..Len(p.metadata_search) :
           /\ p.metadata_search[j].field \in DOMAIN d.metadata
           /\ ReSearch(p.metadata_search[j].regex, d.metadata[p.metadata_search[j].field])

Matching(d, ps) == {k \in 1..Len(ps) : PlanMatches(d, ps[k])}

\* C1: select_plan_for_doc returns the first plan in iteration order whose
\* path_regex matches the document's name and whose every metadata_search entry
\* names a field of the document's metadata with a matching value; it returns
\* none exactly when no plan satisfies both; the plans evaluated are the plans
\* up to the selected one, in order, and none after it.
C1_FirstMatchingPlan ==
    [][pc = "select" =>
          LET M == Matching(doc, inscope)
              n == IF M = {} THEN Len(inscope) ELSE MinOf(M)
          IN  /\ plan' = (IF M = {} THEN 0 ELSE MinOf(M))
              /\ (M = {}) = (pc' = "file" /\ status'[tfile] = "skipped")
              /\ (M # {}) = (pc' = "actions")
              /\ Len(evaluated') = n
              /\ \A k \in 1..n : evaluated'[k].plan = inscope[k].name
    ]_vars

\* C1 witness: the first of two plans, one with a metadata_search, was selected
\* and the second was not evaluated
C1_Witness ==
    /\ pc = "actions"
    /\ plan = 1
    /\ Len(inscope) = 2
    /\ Len(inscope[1].metadata_search) > 0
    /\ Len(evaluated) = 1

\* the passwords of the plans in scan order
RECURSIVE ScanOrder(_)
ScanOrder(ps) ==
    IF ps = <<>> THEN <<>>
    ELSE [i \in 1..Len(Head(ps).passwords) |->
              [plan |-> Head(ps).name, password |-> Head(ps).passwords[i]]]
         \o ScanOrder(Tail(ps))

Accepted(d, ps) ==
    {i \in 1..Len(ScanOrder(ps)) : DocAuthenticate(d, ScanOrder(ps)[i].password)}

\* C4: for an encrypted document that accepts a password of the scan order,
\* do_authentication returns true and the calls of doc.authenticate are the
\* scan order up to the first accepted password, and none after it.
C4_StopsAtFirstAccepted ==
    [][(pc = "auth" /\ doc.is_encrypted /\ Accepted(doc, inscope) # {}) =>
          /\ pc' = "select"
          /\ attempts' = SubSeq(ScanOrder(inscope), 1, MinOf(Accepted(doc, inscope)))
    ]_vars

\* C4 witness: authenticated by a password that is not the last of the scan order
C4_Witness ==
    /\ pc = "select"
    /\ doc.is_encrypted
    /\ Len(attempts) >= 2
    /\ Len(attempts) < Len(ScanOrder(inscope))

\* C5: for an unencrypted document do_authentication returns true and
\* doc.authenticate is never called.
C5_UnencryptedNoAttempts ==
    [][(pc = "auth" /\ ~doc.is_encrypted) => (pc' = "select" /\ attempts' = <<>>)]_vars

\* C5 witness: an unencrypted document went on to plan selection while the plans
\* in scope hold passwords
C5_Witness ==
    /\ pc = "select"
    /\ ~doc.is_encrypted
    /\ attempts = <<>>
    /\ Len(ScanOrder(inscope)) >= 2

\* C6: for an encrypted document do_authentication returns false only after
\* doc.authenticate was called once for every password of every plan in scope,
\* in scan order, and every call returned false.
C6_FalseOnlyAfterAll ==
    [][(pc = "auth" /\ doc.is_encrypted /\ pc' # "select") =>
          /\ attempts' = ScanOrder(inscope)
          /\ Accepted(doc, inscope) = {}
          /\ status'[tfile] = "skipped"
    ]_vars

\* C6 witness: authentication failed after the passwords of two plans were tried
C6_Witness ==
    /\ pc = "file"
    /\ status[tfile] = "skipped"
    /\ LastEv.kind = "auth_failed"
    /\ Len(attempts) >= 3
    /\ attempts[1].plan # attempts[Len(attempts)].plan


\* the places of trace at which an action returned should_continue = False
HaltAt == {i \in 1..Len(trace) : trace[i].kind = "action" /\ ~trace[i].ok}
SelectAt == CHOOSE i \in 1..Len(trace) : trace[i].kind = "select"
PlanNamed(n) == CHOOSE k \in 1..Len(plans) : plans[k].name = n
AfterSave == {"save", "post", "post_error", "post_missing", "post_raised", "size",
              "commit", "discard", "save_failed", "size_failed", "commit_failed"}

\* C2: when an action returns should_continue = False, apply_actions returns
\* False at once: it is the last thing done for the file (no later action, no
\* save, no post-processor, no size report, no commit), the actions before it
\* ran in list order, the file is skipped and its output path is unchanged.
C2_HaltSkipsFile ==
    HaltAt # {} =>
        /\ HaltAt = {Len(trace)}
        /\ pc \in {"file", "source", "done"}
        /\ doc = NoDoc
        /\ status[tfile] = "skipped"
        /\ realOut[tfile] = outAtStart[tfile]
        /\ tempFile = AbsentFile
        /\ Kinds \cap AfterSave = {}
        /\ \A j \in 1..(Len(trace) - SelectAt) :
               trace[SelectAt + j].arg = plans[PlanNamed(trace[SelectAt].arg)].actions[j].name

\* C2 witness: the second of three actions halted the file after the first ran,
\* and the file had an output
C2_Witness ==
    /\ pc = "file"
    /\ Len(trace) >= 2
    /\ LastEv = EvAction("require-body", FALSE)
    /\ trace[Len(trace) - 1] = EvAction("drop-id", TRUE)
    /\ Exists(outAtStart[tfile])
    /\ status[tfile] = "skipped"

Complete == {"saved", "compressed"}

C8_SecondRunSkipsUpToDate ==
    \A f \in FileKeys :
        (/\ run >= 2
         /\ ~force
         /\ outAtStart[f] # Unread
         /\ Exists(outAtStart[f])
         /\ outAtStart[f].mtime > in_mtime[f]) =>
            /\ realOut[f] = outAtStart[f]
            /\ status[f] \in {"pending", "skipped"}
            /\ f = tfile =>
                   /\ trace = <<Ev("stale", "")>>
                   /\ doc = NoDoc
                   /\ tempFile = AbsentFile

\* C8 witness: the second run skipped a file whose output the first run wrote
C8_Witness ==
    /\ run = 2
    /\ \E f \in FileKeys :
           /\ f = tfile
           /\ status[f] = "skipped"
           /\ trace = <<Ev("stale", "")>>
           /\ realOut[f].content \in Complete

\* C9: every file of every valid source has reached a terminal state
\* (committed, discarded or skipped) when the run ends.
C9_EveryFileTerminal ==
    pc \in {"done", "aborted"} =>
        \A s \in 1..Len(sources) :
            verify_paths(sources[s]) =>
                \A f \in FilesOf(s) : status[f] \in {"skipped", "committed", "discarded"}

\* the part of C9 the code does keep: a file that is skipped hands over to the
\* next file of the listing, and the run is not aborted by it
SkipGoesOn ==
    [][(/\ pc \in {"file", "auth", "select", "actions"}
        /\ CurFile \in FileKeys
        /\ status[CurFile] = "pending"
        /\ status'[CurFile] = "skipped") =>
          (pc' = "file" /\ src' = src /\ fidx' = fidx + 1)]_vars

\* C10: a post-processor that raises does not abort the commit of its file: the
\* run ends normally and the file's temporary output has replaced the output.
C10_PostFailureDoesNotAbort ==
    (pc \in {"done", "aborted"} /\ ~dry_run /\ "post_raised" \in Kinds) =>
        (pc = "done" /\ status[tfile] = "committed")


BetweenFiles == {"start", "source", "file", "done", "aborted"}

\* C11 as stated: at most one document handle is open at any time, and none
\* is open between two files or after the run.
C11_AtMostOneHandle ==
    /\ handles <= 1
    /\ pc \in BetweenFiles => (handles = 0 /\ doc = NoDoc)

\* C11: the orchestrator holds at most one document handle, the one of the file
\* being processed; the only further handle is the one gs-compress opens on the
\* input path while it reads the metadata; every handle is released before the
\* next file's processing begins and when the run ends, on every exit path.
C11_HandleReleasedPerFile ==
    /\ handles \in 0..2
    /\ handles = 2 => pc = "gs"
    /\ (doc # NoDoc) <=> (handles >= 1)
    /\ pc \in BetweenFiles => (handles = 0 /\ doc = NoDoc)

\* C11 witness: a post-processor raised while the document was open, and the
\* run ended with no handle open
C11_Witness ==
    /\ pc = "aborted"
    /\ LastEv.kind = "post_raised"
    /\ "open" \in Kinds
    /\ handles = 0
    /\ doc = NoDoc

\* C12: when the run has ended, normally or by an exception, the temporary
\* directory is removed and no temporary output file is left; a temporary
\* output file only ever exists inside the temporary directory of the run.
C12_TempDirRemoved ==
    /\ pc \in {"done", "aborted"} => (~tempDir /\ tempFile = AbsentFile)
    /\ Exists(tempFile) => tempDir
    /\ pc \in {"source", "file", "auth", "select", "actions", "post", "gs", "commit",
               "raising"} => tempDir

\* C12 witness: the size report raised after the temporary file was saved, and
\* the run ended with the directory removed
C12_Witness ==
    /\ pc = "aborted"
    /\ LastEv.kind = "size_failed"
    /\ "save" \in Kinds
    /\ ~tempDir
    /\ tempFile = AbsentFile

Invalid(s) == ~sources[s].in_exists \/ ~sources[s].out_exists

\* C13: no file of a source whose input or output path is missing is ever
\* looked at, opened or written, and a run that returns has processed every
\* file of every other source, whether it comes before or after that source.
C13_InvalidSourceSkipped ==
    /\ \A s \in 1..Len(sources) :
           Invalid(s) =>
               /\ \A f \in FilesOf(s) : status[f] = "pending" /\ realOut[f] = Unread
               /\ tfile \notin FilesOf(s)
               /\ src = s => pc \in {"start", "source"}
    /\ pc = "done" =>
           \A s \in 1..Len(sources) :
               ~Invalid(s) => \A f \in FilesOf(s) : status[f] # "pending"

\* C13 witness: the first source was skipped for its missing input path and a
\* file of the second source was committed
C13_Witness ==
    /\ pc = "done"
    /\ ~sources[1].in_exists
    /\ ~Invalid(2)
    /\ status[<<2, 1>>] = "committed"
    /\ \A f \in FilesOf(1) : status[f] = "pending"


\* a plan of the file names an action that the actions table does not hold
Unresolved(file) ==
    \E k \in 1..Len(file.plans) :
        \E j \in 1..Len(file.plans[k].actions) :
            file.plans[k].actions[j] \notin DOMAIN file.actions

\* two classes of the list set registry_id to the same key
DuplicateKey(impls) ==
    \E i, j \in 1..Len(impls) :
        /\ i # j
        /\ impls[i].has_id /\ impls[j].has_id
        /\ impls[i].registry_id = impls[j].registry_id

\* a class of the list supplies no key, or an empty one
MissingKey(impls) ==
    \E i \in 1..Len(impls) : ~impls[i].has_id \/ impls[i].registry_id = ""

FatalConfiguration ==
    \/ config_file.shape # "ok"
    \/ Unresolved(config_file)
    \/ DuplicateKey(package.actions)
    \/ DuplicateKey(package.post_process)

\* process() has not looked at, opened, saved, replaced or deleted any file
Untouched ==
    /\ realOut = [f \in FileKeys |-> Unread]
    /\ status = [f \in FileKeys |-> "pending"]
    /\ tfile = <<0, 0>>
    /\ handles = 0
    /\ doc = NoDoc
    /\ ~tempDir
    /\ tempFile = AbsentFile

\* C14: with a configuration file that is missing, undecodable, invalid or
\* names an undefined action, or with two classes registering one key, main()
\* never reaches process(): it ends before any file is opened, saved, replaced
\* or deleted.
C14_FatalConfigurationAborts ==
    /\ FatalConfiguration => (pc \in {"main", "registries", "exit"} /\ Untouched)
    /\ pc = "exit" => Untouched

\* C14 witness: the configuration loaded, two post-processors registered one
\* key, and main() ended
C14_Witness ==
    /\ pc = "exit"
    /\ config_file.shape = "ok"
    /\ ~Unresolved(config_file)
    /\ DuplicateKey(package.post_process)
    /\ trace = <<Ev("ValueError", "post_process")>>

\* the registry holds every class of the list under the key the class set, and
\* nothing else
Registers(registry, impls) ==
    /\ DOMAIN registry = {impls[i].registry_id : i \in 1..Len(impls)}
    /\ \A i \in 1..Len(impls) : registry[impls[i].registry_id] = impls[i].class

\* C15: discover_and_register returns a mapping that holds every discovered
\* class under its own non-empty key, each key for exactly one class, or it
\* raises; it raises whenever two classes register the same key and whenever
\* a class supplies no key or an empty one.
C15_RegistryOrFailure ==
    /\ pc \in {"registries", "start", "exit"}
    /\ pc = "start" =>
           /\ Registers(action_registry, package.actions)
           /\ Registers(post_process_registry, package.post_process)
           /\ "" \notin DOMAIN action_registry \cup DOMAIN post_process_registry
           /\ ~DuplicateKey(package.actions) /\ ~DuplicateKey(package.post_process)
    /\ (\/ MissingKey(package.actions) \/ DuplicateKey(package.actions)
        \/ MissingKey(package.post_process) \/ DuplicateKey(package.post_process))
           => pc \in {"registries", "exit"}
    /\ pc = "exit" =>
           /\ Len(trace) = 1
           /\ trace[1].kind \in {"ValueError", "AttributeError"}
           /\ action_registry = NoRegistry
           /\ post_process_registry = NoRegistry

\* C15 witness: two action classes set the same non-empty key and the
\* discovery raised
C15_Witness ==
    /\ pc = "exit"
    /\ DuplicateKey(package.actions)
    /\ ~MissingKey(package.actions)
    /\ trace = <<Ev("ValueError", "actions")>>


\* the arguments of a configured action do not validate against the argument
\* model of its function
ArgsInvalid(a) ==
    IF a.function = "detect-text"
    THEN \/ ~(DOMAIN a.args \subseteq {"regex", "stop_if_found", "stop_if_not_found"})
         \/ "regex" \notin DOMAIN a.args
         \/ ~(ArgFlag(a.args, "stop_if_found") \/ ArgFlag(a.args, "stop_if_not_found"))
    ELSE IF a.function = "delete-trailer-id"
    THEN DOMAIN a.args # {}
    ELSE IF a.function = "gated-regex"
    THEN \/ DOMAIN a.args # {"gate_re", "clear_res"}
         \/ \E i \in 1..Len(a.args["clear_res"]) : a.args["clear_res"][i].type # "str"
    ELSE FALSE

\* C16: an action whose arguments do not validate returns (0, False): its
\* apply does not raise, nothing is saved, and the file is skipped.
C16_ValidationFailureReturned ==
    \A i \in 1..Len(trace) :
        (/\ trace[i].kind \in {"action", "action_raised"}
         /\ ArgsInvalid(ActionTable[trace[i].arg])) =>
            /\ trace[i] = EvAction(trace[i].arg, FALSE)
            /\ i = Len(trace)
            /\ status[tfile] = "skipped"
            /\ tempFile = AbsentFile

\* the part of C16 the code does keep: a failure that pydantic reports as a
\* ValidationError (extra or missing argument, a value its validators reject)
\* is returned as (0, False) and the file is skipped
ValidationErrorReturned ==
    \A i \in 1..Len(trace) :
        (/\ trace[i].kind \in {"action", "action_raised"}
         /\ ArgsInvalid(ActionTable[trace[i].arg])
         /\ trace[i].arg # "gated-int") =>
            /\ trace[i] = EvAction(trace[i].arg, FALSE)
            /\ i = Len(trace)
            /\ status[tfile] = "skipped"
            /\ tempFile = AbsentFile

ScopeIdx(s) ==
    {k \in 1..Len(plans) :
        \/ Len(sources[s].plans) = 0
        \/ \E i \in 1..Len(sources[s].plans) : sources[s].plans[i] = plans[k].name}

PerFile == {"file", "auth", "select", "actions", "post", "gs", "commit", "raising"}

\* C18: while the files of a source are processed, the plans in scope are all
\* plans when the source lists none, otherwise exactly the plans it lists by
\* name; they do not change from file to file, and authentication and plan
\* selection only use them.
C18_InScopePlans ==
    /\ pc \in PerFile =>
        /\ Len(inscope) = Cardinality(ScopeIdx(src))
        /\ \A k \in ScopeIdx(src) : \E j \in 1..Len(inscope) : inscope[j] = plans[k]
        /\ \A j \in 1..Len(inscope) : \E k \in ScopeIdx(src) : inscope[j] = plans[k]
    /\ doc # NoDoc =>
        /\ \A i \in 1..Len(attempts) :
               \E k \in ScopeIdx(src) :
                   /\ attempts[i].plan = plans[k].name
                   /\ \E q \in 1..Len(plans[k].passwords) :
                          plans[k].passwords[q] = attempts[i].password
        /\ \A i \in 1..Len(evaluated) :
               \E k \in ScopeIdx(src) : evaluated[i].plan = plans[k].name
        /\ \A i \in 1..Len(trace) :
               trace[i].kind = "select" =>
                   \E k \in ScopeIdx(src) : trace[i].arg = plans[k].name

\* C18 witness: a file of the source that lists P3, P1 and an unknown name was
\* authenticated against and matched with those two plans only
C18_Witness ==
    /\ pc = "actions"
    /\ src = 2
    /\ Len(inscope) = 2
    /\ Len(plans) = 3
    /\ Len(evaluated) = 2
    /\ Len(attempts) >= 1
    /\ inscope[plan].name = "P3"


\* the file's output exists and is newer than the input
Newer(f) == Exists(outAtStart[f]) /\ outAtStart[f].mtime > in_mtime[f]

\* the part of C19 the code does keep: a file is skipped for staleness exactly
\* when force is not set and its output exists and is newer; otherwise the
\* file is handed to fitz.open
StaleOnlyWhenNewer ==
    /\ "stale" \in Kinds => (~force /\ Newer(tfile))
    /\ (Len(trace) > 0 /\ trace[1].kind \in {"open", "open_failed"}) =>
           (force \/ ~Newer(tfile))

\* C19: a file is skipped for staleness only when force is not set and its
\* output exists and is newer than its input; with force set, every file of
\* every valid source has been opened and has gone to authentication when the
\* run ends.
C19_ForceOpensEveryFile ==
    /\ "stale" \in Kinds => (~force /\ Newer(tfile))
    /\ (force /\ pc \in {"done", "aborted"}) =>
           \A s \in 1..Len(sources) :
               ~Invalid(s) =>
                   \A f \in FilesOf(s) :
                       /\ status[f] # "pending"
                       /\ f = tfile =>
                              /\ Len(trace) >= 2
                              /\ trace[1].kind = "open"
                              /\ trace[2].kind \in {"auth", "auth_failed"}

\* the stage an entry of trace belongs to
Rank(kind) ==
    CASE kind \in {"open", "open_failed"} -> 1
      [] kind \in {"auth", "auth_failed"} -> 2
      [] kind \in {"select", "no_plan"} -> 3
      [] kind \in {"action", "action_missing", "action_raised"} -> 4
      [] kind \in {"save", "save_failed"} -> 5
      [] kind \in {"post", "post_error", "post_missing", "post_raised"} -> 6
      [] kind \in {"size", "size_failed"} -> 7
      [] kind \in {"commit", "discard", "commit_failed"} -> 8
      [] OTHER -> 0

Before(i, kind) == \E h \in 1..(i - 1) : trace[h].kind = kind
AtRank(r, i) == {h \in 1..(i - 1) : Rank(trace[h].kind) = r}
SelectedPlan == plans[PlanNamed(trace[SelectAt].arg)]

\* the stages of the file in trace are in order, each once, and each began
\* only after the one before it succeeded; passed(e) says which entries of the
\* action stage let the save happen
StagesInOrder(passed(_)) ==
    /\ \A i, j \in 1..Len(trace) :
           i < j => \/ Rank(trace[i].kind) < Rank(trace[j].kind)
                    \/ /\ Rank(trace[i].kind) = Rank(trace[j].kind)
                       /\ Rank(trace[i].kind) \in {4, 6}
    /\ \A i \in 1..Len(trace) :
           LET r == Rank(trace[i].kind)
           IN  /\ r = 2 => Before(i, "open")
               /\ r = 3 => Before(i, "auth")
               /\ r = 4 => /\ Before(i, "select")
                           /\ Cardinality(AtRank(4, i)) < Len(SelectedPlan.actions)
                           /\ trace[i].arg =
                                  SelectedPlan.actions[Cardinality(AtRank(4, i)) + 1].name
                           /\ \A h \in AtRank(4, i) : trace[h].ok
               /\ r = 5 => /\ Before(i, "select")
                           /\ Cardinality(AtRank(4, i)) = Len(SelectedPlan.actions)
                           /\ \A h \in AtRank(4, i) : passed(trace[h])
               /\ r = 6 => /\ Before(i, "save")
                           /\ Cardinality(AtRank(6, i)) < Len(SelectedPlan.post_process)
               /\ r = 7 => /\ Before(i, "save")
                           /\ Cardinality(AtRank(6, i)) = Len(SelectedPlan.post_process)
               /\ r = 8 => Before(i, "size")

ReturnedTrue(e) == e.kind = "action" /\ e.ok
ReturnedTrueOrUnknown(e) == (e.kind = "action" /\ e.ok) \/ e.kind = "action_missing"

\* C20 as stated: the stages of a file happen in order and each once, and the
\* save happens only after every action of the plan returned True.
C20_StagesInOrderStrict == StagesInOrder(ReturnedTrue)

\* C20: the stages of a file happen only in the order authentication, plan
\* selection, actions, save, post-processing, size report, commit or discard,
\* each at most once and each only after the one before it succeeded; the
\* save happens only after every action of the plan either returned True or
\* was passed over because its function is not in the registry.
C20_StagesInOrder == StagesInOrder(ReturnedTrueOrUnknown)

\* C20 witness: a file went through every stage and was committed
C20_Witness ==
    /\ pc = "file"
    /\ Len(trace) > 0
    /\ LastEv.kind = "commit"
    /\ {"open", "auth", "select", "action", "save", "post", "size"} \subseteq Kinds
    /\ status[tfile] = "committed"

\* the entries of metadata_search the document d fails: the field is absent
\* from its metadata, or the regex does not match the field's value
FailingFields(d, ms) ==
    {j \in 1..Len(ms) : \/ ms[j].field \notin DOMAIN d.metadata
                        \/ ~ReSearch(ms[j].regex, d.metadata[ms[j].field])}

\* C21: when a plan whose path_regex matched names, in its metadata_search, a
\* field that is absent from the document's metadata or whose value the regex
\* does not match, the plan is rejected, the fields looked up for it are those
\* up to the first failing one and none after it, and the next candidate plan,
\* if there is one, is evaluated.
C21_MetadataFailureRejects ==
    [][pc = "select" =>
          \A k \in 1..Len(evaluated') :
              LET ms == inscope[k].metadata_search
                  F == FailingFields(doc, ms)
              IN  (evaluated'[k].path /\ F # {}) =>
                      /\ plan' # k
                      /\ Len(evaluated'[k].searched) = MinOf(F)
                      /\ \A j \in 1..MinOf(F) : evaluated'[k].searched[j] = ms[j].field
                      /\ k < Len(inscope) => Len(evaluated') > k
    ]_vars

\* C21 witness: the first plan failed at the first of its two fields, the
\* second field was not looked up, and the second plan was evaluated
C21_Witness ==
    /\ pc \in {"actions", "file"}
    /\ Len(evaluated) = 2
    /\ evaluated[1].path
    /\ Len(inscope[1].metadata_search) = 2
    /\ Len(evaluated[1].searched) = 1
    /\ plan # 1

\* the action the loop of apply_actions is at
CurAction == inscope[plan].actions[aidx]
Registered(a) == a.function \in DOMAIN action_registry

\* C22: apply_actions takes the plan's actions in list order; an action whose
\* function is not in the registry is passed over with a warning, the document
\* is left as it was and the loop goes on to the action after it; apply_actions
\* returns False only at an action that is in the registry and returned
\* should_continue False; and when apply_actions has returned True every
\* action of the plan was taken, in list order, the registered ones applied.
C22_MissingActionSkipped ==
    [][(pc = "actions" /\ aidx <= Len(inscope[plan].actions)) =>
          /\ Len(trace') = Len(trace) + 1
          /\ trace'[Len(trace')].arg = CurAction.name
          /\ Cardinality({h \in 1..Len(trace) : Rank(trace[h].kind) = 4}) = aidx - 1
          /\ ~Registered(CurAction) =>
                 /\ trace'[Len(trace')].kind = "action_missing"
                 /\ pc' = "actions"
                 /\ aidx' = aidx + 1
                 /\ plan' = plan
                 /\ doc' = doc
                 /\ status' = status
          /\ pc' = "file" =>
                 /\ Registered(CurAction)
                 /\ trace'[Len(trace')].kind = "action"
                 /\ ~trace'[Len(trace')].ok
          /\ (pc' = "actions" /\ aidx' > Len(inscope[plan].actions)) =>
                 \A h \in 1..Len(inscope[plan].actions) :
                     LET e == trace'[Len(trace') - Len(inscope[plan].actions) + h]
                         a == inscope[plan].actions[h]
                     IN  /\ e.arg = a.name
                         /\ e.kind = IF Registered(a) THEN "action" ELSE "action_missing"
                         /\ e.ok
    ]_vars

\* C22 witness: an action was passed over as unregistered, the action after it
\* was applied, and the document was saved
C22_Witness ==
    /\ pc = "post"
    /\ \E i, j \in 1..Len(trace) :
           /\ j = i + 1
           /\ trace[i].kind = "action_missing"
           /\ trace[j].kind = "action"
           /\ trace[j].ok
    /\ "save" \in Kinds

\* the names of plan.post_process the loop of apply_post_processing has taken
PostTaken ==
    SubSeq(inscope[plan].post_process, 1, IF pc = "gs" THEN ppidx ELSE ppidx - 1)
InPostRegistry(n) == n \in DOMAIN post_process_registry

\* C23: apply_post_processing takes the plan's post-processor names in list
\* order; the calls of apply made so far are, in order and each once, the names
\* taken so far that are in the registry, every call with the input file as
\* in_path and the temporary file save_pdf wrote as out_path; a name that is
\* not in the registry is passed over, nothing is applied or raised for it and
\* the loop goes on to the name after it.
C23_PostProcessingInOrder ==
    [][(pc \in {"post", "gs"}) =>
          /\ Len(applied) = Len(SelectSeq(PostTaken, InPostRegistry))
          /\ \A i \in 1..Len(applied) :
                 /\ applied[i].name = SelectSeq(PostTaken, InPostRegistry)[i]
                 /\ applied[i].in_path = <<"in_file", tfile>>
                 /\ applied[i].out_path = <<"temp_dir", temp_name[tfile]>>
                 /\ temp_name[tfile] \in dirFiles
          /\ (pc = "post" /\ ppidx <= Len(inscope[plan].post_process)) =>
                 IF InPostRegistry(inscope[plan].post_process[ppidx])
                 THEN /\ pc' = "gs"
                      /\ ppidx' = ppidx
                      /\ Len(applied') = Len(applied) + 1
                 ELSE /\ pc' = "post"
                      /\ ppidx' = ppidx + 1
                      /\ applied' = applied
                      /\ status' = status
                      /\ tempFile' = tempFile
          /\ (pc = "post" /\ pc' = "commit") =>
                 /\ ppidx > Len(inscope[plan].post_process)
                 /\ PostTaken = inscope[plan].post_process
    ]_vars

\* C23 witness: of the two names of the plan the first was not in the registry,
\* the second was applied, and apply_post_processing has returned
C23_Witness ==
    /\ pc = "commit"
    /\ Len(inscope[plan].post_process) = 2
    /\ ~InPostRegistry(inscope[plan].post_process[1])
    /\ Len(applied) = 1
    /\ applied[1].name = inscope[plan].post_process[2]
    /\ applied[1].out_path = <<"temp_dir", temp_name[tfile]>>

\* the names a source lists, as a set
Listed(s) == {sources[s].plans[i] : i \in 1..Len(sources[s].plans)}
Configured == {plans[k].name : k \in 1..Len(plans)}

\* C24: for a source that lists plan names, the plans in scope are the
\* configured plans whose name is listed, in the order of the global plans
\* mapping and not in the order of the source's list; a listed name that no
\* plan carries adds nothing and the source's files are processed all the
\* same; the password scan and the plan selection go through the plans in that
\* order.
C24_ScopeInMappingOrder ==
    [][/\ (pc = "source" /\ src <= Len(sources) /\ ~Invalid(src)) =>
              /\ pc' = "file"
              /\ src' = src
              /\ {inscope'[i].name : i \in 1..Len(inscope')} =
                     IF Len(sources[src].plans) = 0 THEN Configured
                     ELSE Listed(src) \cap Configured
              /\ \A i \in 1..Len(inscope') : inscope'[i] = plans[PlanNamed(inscope'[i].name)]
              /\ \A i, j \in 1..Len(inscope') :
                     i < j => PlanNamed(inscope'[i].name) < PlanNamed(inscope'[j].name)
       /\ pc \in {"auth", "select"} =>
              /\ \A i, j \in 1..Len(attempts') :
                     i < j => PlanNamed(attempts'[i].plan) <= PlanNamed(attempts'[j].plan)
              /\ \A i, j \in 1..Len(evaluated') :
                     i < j => PlanNamed(evaluated'[i].plan) < PlanNamed(evaluated'[j].plan)
    ]_vars

\* C24 witness: the source lists P3 before P1 and a name no plan carries; a
\* file of it was authenticated with P1's password and matched against P1
\* first and P3 second
C24_Witness ==
    /\ pc = "actions"
    /\ src = 2
    /\ sources[2].plans[1] = "P3"
    /\ sources[2].plans[2] = "P1"
    /\ Listed(2) \ Configured # {}
    /\ Len(attempts) = 1
    /\ attempts[1].plan = "P1"
    /\ Len(evaluated) = 2
    /\ evaluated[1].plan = "P1"
    /\ evaluated[2].plan = "P3"

\* the files task of the source the loop is in counts the files that are done
FilesTaskCounts ==
    pc \in PerFile =>
        /\ files_task \in DOMAIN progress.tasks
        /\ progress.tasks[files_task].total = sources[src].nfiles
        /\ progress.tasks[files_task].completed = fidx - 1

\* the files task is advanced exactly once for every listed file, on every path
\* the file can take, so that it stands at the number of files listed when the
\* source finishes
FilesTaskAdvancedOncePerFile ==
    [][/\ FilesTaskCounts
       /\ (pc \in PerFile /\ fidx' # fidx) =>
              /\ fidx' = fidx + 1
              /\ progress' = update(progress, files_task)
       /\ (pc = "file" /\ pc' = "source") =>
              progress.tasks[files_task].completed = sources[src].nfiles
    ]_vars

\* with more than one source, the sources task counts the sources that are done
SourcesTaskCounts ==
    (Len(sources) > 1 /\ pc \in PerFile \cup {"source", "done"}) =>
        /\ source_task \in DOMAIN progress.tasks
        /\ progress.tasks[source_task].total = Len(sources)
        /\ progress.tasks[source_task].completed = src - 1

\* C25: within a source the files task is advanced exactly once for every
\* listed file on every path the file can take, so it stands at the number of
\* files listed when the source finishes; with more than one source the sources
\* task is advanced exactly once per source, skipped sources included.
C25_ProgressCounts ==
    /\ FilesTaskCounts
    /\ SourcesTaskCounts

\* the files for which line 308 generated a name in this call of process()
NamedFiles == {f \in FileKeys : temp_name[f] # 0}

\* C26: temp_dir holds at most one file at any time, the temporary output file
\* of the file being processed, and holds none when the loop takes a file and
\* up to the save; a file that is skipped never has its temporary file
\* created; a dry-run file's temporary file is deleted and a committed file's
\* is moved to the real output path; the name generated for a file is new and
\* no other file has it.
C26_OneTemporaryFile ==
    [][/\ Cardinality(dirFiles) <= 1
       /\ (dirFiles # {}) = Exists(tempFile)
       /\ dirFiles # {} =>
              /\ pc \in {"post", "gs", "commit", "raising"}
              /\ dirFiles = {temp_name[tfile]}
              /\ tfile \in NamedFiles
       /\ pc \in {"start", "source", "file", "auth", "select", "actions"} => dirFiles = {}
       /\ \A f, g \in NamedFiles : f # g => temp_name[f] # temp_name[g]
       /\ (pc = "file" /\ pc' \in {"auth", "raising"} /\ run' = run) =>
              /\ temp_name'[tfile'] \notin {temp_name[f] : f \in FileKeys}
              /\ \A f \in FileKeys \ {tfile'} : temp_name'[f] = temp_name[f]
              /\ dirFiles' = {}
       /\ (pc \in PerFile /\ pc' = "file" /\ status'[tfile'] = "skipped") =>
              /\ dirFiles = {}
              /\ dirFiles' = {}
              /\ ~Exists(tempFile')
              /\ "save" \notin {trace'[i].kind : i \in 1..Len(trace')}
       /\ (pc = "commit" /\ pc' = "file") =>
              /\ dirFiles = {temp_name[tfile]}
              /\ dirFiles' = {}
              /\ ~Exists(tempFile')
              /\ realOut'[tfile] = IF dry_run THEN realOut[tfile] ELSE tempFile
    ]_vars

\* C26 witness: the first file of a source was committed under one name and
\* the temporary file of the second, under another name, is the one file of
\* temp_dir
C26_Witness ==
    /\ pc = "commit"
    /\ tfile = <<1, 2>>
    /\ status[<<1, 1>>] = "committed"
    /\ temp_name[<<1, 1>>] # 0
    /\ temp_name[<<1, 2>>] # temp_name[<<1, 1>>]
    /\ dirFiles = {temp_name[<<1, 2>>]}

=============================================================================
